---- MODULE Spec2Model ----
(***************************************************************************)
(* Discrete-event queue simulation engine (runSimulation) of the           *)
(* Queueing-Theory-Simulator: customer generation, the arrival/departure   *)
(* event loop with preemptive priority, and the construction of the        *)
(* result records.                                                         *)
(*                                                                         *)
(* Every time in the engine is an integer: an inter-arrival time is a CP   *)
(* table row x or Math.round(sample), a service time is                    *)
(* Math.max(1, Math.round(sample)), and every other time is a sum or a     *)
(* difference of those.  Math.round(t * 100) / 100 therefore returns t on  *)
(* every time the engine computes, and is written as t below.              *)
(*                                                                         *)
(* JavaScript arrays are 0-based; sequences here are 1-based, so           *)
(* allCustomers[customerIndex] of the source is allCustomers[customerIndex *)
(* + 1] here and servers[i] is servers[i + 1].                             *)
(***************************************************************************)
EXTENDS Integers, Sequences, FiniteSets

\* ------------------------------------------------------------------ bounds
MaxCustomers == 3         \* customers of a run of Spec
MaxFifoCustomers == 4     \* customers of a run of SpecFIFO (priority disabled)
MaxSetupCustomers == 2    \* customers of a run of SpecSetup (all distributions)
MaxTableRows == 3         \* rows of a CP table handed to lookupFromCPTable
MaxServers == 2
MaxInterArrival == 1      \* the positive inter-arrival time drawn
MaxServiceTime == 2       \* the longest service time drawn
MaxPriorityLevels == 2

\* ------------------------------------------------- JavaScript value model
\* `undefined` for the optional field firstStartTime: a value no run reaches as
\* a time (arrival times are negative under Uniform bounds below 0).
Undefined == -2000000
\* Infinity: larger than every time a bounded run reaches.
Infinity == 1000000
\* NaN, the result of 0 / 0 (numServers = 0).
NaN == -2

\* JavaScript truthiness of an optional number: undefined and 0 are falsy.
Falsy(x) == x = Undefined \/ x = 0

\* x || y on optional numbers.
OrElse(x, y) == IF Falsy(x) THEN y ELSE x

MathMax(a, b) == IF a >= b THEN a ELSE b

VARIABLES
    pc,                 \* "gen" | "loop" | "done": position in runSimulation
    numServers,         \* params.numServers
    enablePriority,     \* params.enablePriority
    priorityLevels,     \* params.priorityLevels
    arrivalParams,      \* params.arrivalParams
    arrivalCPTable,     \* the CP table of the arrival distribution
    numCustomers,       \* number of customers to generate
    currentArrivalTime, \* running arrival clock of the generation loop
    allCustomers,       \* the customer objects, by id (index = id)
    queue,              \* wait queue: sequence of customer ids
    servers,            \* sequence of ServerState records
    completedCustomers, \* Map id -> completion data, in insertion order
    customerIndex,      \* 0-based index of the next not-yet-arrived customer
    currentTime,        \* simulated clock
    queueLengthOverTime,
    serverUtilizationOverTime,
    branch,             \* branch of the event dispatch taken by the last iteration
    enqueued,           \* history: the ids put on the wait queue, in order
    result,             \* the returned SimulationResult (once pc = "done")
    call                \* the last call of a helper function: name, arguments, value

vars == <<pc, numServers, enablePriority, priorityLevels, arrivalParams,
          arrivalCPTable, numCustomers,
          currentArrivalTime, allCustomers, queue, servers, completedCustomers,
          customerIndex, currentTime, queueLengthOverTime,
          serverUtilizationOverTime, branch, enqueued, result, call>>

\* The state of a run of runSimulation.
run == <<pc, numServers, enablePriority, priorityLevels, arrivalParams,
         arrivalCPTable, numCustomers,
         currentArrivalTime, allCustomers, queue, servers, completedCustomers,
         customerIndex, currentTime, queueLengthOverTime,
         serverUtilizationOverTime, branch, enqueued, result>>

params == <<numServers, enablePriority, priorityLevels, arrivalParams,
            arrivalCPTable, numCustomers>>

\* ------------------------------------------------ distribution parameters
\* The real-valued fields of DistributionParams (rate, mean, a, b) are carried
\* in tenths, the step of the form's inputs; a field the caller leaves out is
\* carried as 0, which `||` treats like undefined.
ParamOr(x, default) == IF x = 0 THEN default ELSE x

\* Math.round in the place of Math.ceil.
CeilTenths_Nearest(t) == (t + 5) \div 10

\* Math.ceil of t tenths.
CeilTenths(t) == -((-t) \div 10)

TableArrival(type, rate) ==
    [type |-> type, rate |-> rate, mean |-> 0, a |-> 0, b |-> 0]

NormalArrival(mean) ==
    [type |-> "normal", rate |-> 0, mean |-> mean, a |-> 0, b |-> 0]

UniformArrival(a, b) ==
    [type |-> "uniform", rate |-> 0, mean |-> 0, a |-> a, b |-> b]

\* ------------------------------------------------------- helper functions
\* The helper functions are pure; a call is recorded in `call` with its
\* arguments and its value.  Probabilities (cp, the draw R rounded to four
\* decimals) are carried in ten-thousandths.

\* A strict comparison in the scan.
DrawWithin_Strict(randomNum, cp) == randomNum < cp

\* if (randomNum <= table[i].cp)
DrawWithin(randomNum, cp) == randomNum <= cp

\* lookupFromCPTable from row i (0-based) on: the first row whose cp admits the
\* draw, else the last x with cp 1.
RECURSIVE ScanCPTable(_, _, _)
ScanCPTable(table, randomNum, i) ==
    IF i >= Len(table)
    THEN [value |-> table[Len(table)].x, cp |-> 10000]
    ELSE IF DrawWithin(randomNum, table[i + 1].cp)
         THEN [value |-> table[i + 1].x, cp |-> table[i + 1].cp]
         ELSE ScanCPTable(table, randomNum, i + 1)

LookupFromCPTable(table, randomNum) == ScanCPTable(table, randomNum, 0)

\* The cp values and the draws of the lookups explored.
CpChoices == {2500, 7500, 10000}
DrawChoices == {0, 2500, 5000, 7500, 9999, 10000}

\* CP tables of 1..maxRows rows x = 0, 1, ... with non-decreasing cp.
CPTableChoices(maxRows) ==
    UNION {{[k \in 1..n |-> [x |-> k - 1, cp |-> g[k]]] :
               g \in {h \in [1..n -> CpChoices] :
                         \A j \in 1..(n - 1) : h[j] <= h[j + 1]}} :
           n \in 1..maxRows}

CallLookupFromCPTable ==
    /\ \E table \in CPTableChoices(MaxTableRows), randomNum \in DrawChoices :
          call' = [fn |-> "lookupFromCPTable",
                   args |-> [table |-> table, randomNum |-> randomNum],
                   out |-> LookupFromCPTable(table, randomNum)]
    /\ UNCHANGED run

\* A draw of Math.random(), in tenths: 0, 0.1, ..., 0.9.
Draws == 0..9

\* -Math.log(R) in thousandths for a draw R of 0.1, ..., 0.9 (to the nearest
\* thousandth); Math.log(0) is -Infinity.
NegLog(R) ==
    CASE R = 0 -> Infinity
      [] R = 1 -> 2303 [] R = 2 -> 1609 [] R = 3 -> 1204
      [] R = 4 -> 916  [] R = 5 -> 693  [] R = 6 -> 511
      [] R = 7 -> 357  [] R = 8 -> 223  [] R = 9 -> 105

\* lookupZFromTable(R) in hundredths for a draw R of 0, 0.1, ..., 0.9: R = 0
\* is below the first Z_TABLE row (z = -3.72); every other draw is the prob of
\* a row, where the interpolation returns the row's z.
LookupZFromTable(R) ==
    CASE R = 0 -> -372
      [] R = 1 -> -128 [] R = 2 -> -84 [] R = 3 -> -52
      [] R = 4 -> -25  [] R = 5 -> 0   [] R = 6 -> 25
      [] R = 7 -> 52   [] R = 8 -> 84  [] R = 9 -> 128

\* normalRandom in thousandths: Math.max(0.01, mean + Z * stdDev), mean and
\* stdDev in tenths.
NormalRandom(mean, stdDev, R) ==
    MathMax(10, mean * 100 + LookupZFromTable(R) * stdDev)

\* uniformRandom in hundredths: a + R * (b - a), a and b in tenths.
UniformRandom(a, b, R) == a * 10 + R * (b - a)

\* The raw exponential service time -mu * Math.log(R), rounded by Math.round:
\* mu in tenths; for R = 0 the product is Infinity or -Infinity by the sign of
\* mu, and Math.round returns it.
RoundedExponential(mu, R) ==
    IF R = 0 THEN (IF mu > 0 THEN Infinity ELSE -Infinity)
    ELSE (mu * NegLog(R) + 5000) \div 10000

\* getServiceTime(params) for the draws R (its own) and R2 (the draw of
\* normalRandom or uniformRandom); the fields of params in tenths.
GetServiceTime(p, R, R2) ==
    LET rounded ==
            IF p.type \in {"poisson", "exponential"}
            THEN RoundedExponential(ParamOr(p.rate, 10), R)
            ELSE IF p.type = "normal"
                 THEN (NormalRandom(ParamOr(p.mean, 10), ParamOr(p.stdDev, 2), R2)
                          + 500) \div 1000
                 ELSE (UniformRandom(ParamOr(p.a, 5), ParamOr(p.b, 15), R2)
                          + 50) \div 100
    IN  [time |-> MathMax(1, rounded), randomNum |-> R * 1000]

\* The service parameters explored: rates -1, 0, 0.5, 1, 3; Normal means 0, 1,
\* 2.5 with stdDev 0, 0.2, 1; Uniform a in 0, 0.5, 2 and b in 0, 1.5, 4.
ServiceParamChoices ==
    {[type |-> t, rate |-> r, mean |-> 0, stdDev |-> 0, a |-> 0, b |-> 0] :
        t \in {"poisson", "exponential"}, r \in {-10, 0, 5, 10, 30}}
    \cup {[type |-> "normal", rate |-> 0, mean |-> m, stdDev |-> s, a |-> 0, b |-> 0] :
            m \in {0, 10, 25}, s \in {0, 2, 10}}
    \cup {[type |-> "uniform", rate |-> 0, mean |-> 0, stdDev |-> 0, a |-> a, b |-> b] :
            a \in {0, 5, 20}, b \in {0, 15, 40}}

\* One call of getServiceTime; the exponential case makes no second draw.
CallGetServiceTime ==
    /\ \E p \in ServiceParamChoices, R \in Draws, R2 \in Draws :
          /\ p.type \in {"poisson", "exponential"} => R2 = 0
          /\ p.type \in {"normal", "uniform"} => R \in {0, 5}
          /\ call' = [fn |-> "getServiceTime",
                      args |-> [params |-> p, R |-> R, R2 |-> R2],
                      out |-> GetServiceTime(p, R, R2)]
    /\ UNCHANGED run

\* Math.round(p * 10000) / 10000 in ten-thousandths, p in billionths.
Round4(p) == (p + 50000) \div 100000

\* Math.exp(-lambda) in billionths (rounded down) for the rates explored, each
\* a fraction num / den; Math.exp(-800) underflows to 0.
ExpNeg(lambda) ==
    CASE lambda = <<1, 100>> -> 990049833
      [] lambda = <<1, 10>>  -> 904837418
      [] lambda = <<1, 2>>   -> 606530659
      [] lambda = <<1, 1>>   -> 367879441
      [] lambda = <<2, 1>>   -> 135335283
      [] lambda = <<800, 1>> -> 0

\* The rates explored: 0.01, 0.1, 0.5, 1, 2 and 800.
PoissonRates == {<<1, 100>>, <<1, 10>>, <<1, 2>>, <<1, 1>>, <<2, 1>>, <<800, 1>>}

\* The loop of generatePoissonCPTable from row k on, in billionths: pmf is the
\* PMF of row k - 1 and cumulativeProb the sum so far.  The PMF of row k,
\* e^(-lambda) * lambda^k / k!, is computed from that of row k - 1.
RECURSIVE PoissonRows(_, _, _, _, _)
PoissonRows(lambda, k, pmf, cumulativeProb, table) ==
    IF ~(cumulativeProb <= 1000000000 /\ k < 50) THEN table
    ELSE LET nextPmf == IF k = 0 THEN ExpNeg(lambda)
                        ELSE (pmf * lambda[1]) \div (lambda[2] * k)
             nextCum == cumulativeProb + nextPmf
             nextTable == Append(table, [x |-> k, prob |-> Round4(nextPmf),
                                         cp |-> Round4(nextCum)])
         IN  IF Round4(nextCum) = 10000 THEN nextTable
             ELSE PoissonRows(lambda, k + 1, nextPmf, nextCum, nextTable)

GeneratePoissonCPTable(lambda) == PoissonRows(lambda, 0, 0, 0, <<>>)

CallGeneratePoissonCPTable ==
    /\ \E lambda \in PoissonRates :
          call' = [fn |-> "generatePoissonCPTable",
                   args |-> [lambda |-> lambda],
                   out |-> GeneratePoissonCPTable(lambda)]
    /\ UNCHANGED run

\* ---- calculateMMcMetrics: exact fractions <<numerator, denominator>> ----

RECURSIVE GCD(_, _)
GCD(m, n) == IF n = 0 THEN m ELSE GCD(n, m % n)

\* A non-negative fraction in lowest terms.
Norm(n, d) == LET g == GCD(n, d) IN <<n \div g, d \div g>>

RAdd(p, q) == Norm(p[1] * q[2] + q[1] * p[2], p[2] * q[2])
RMul(p, q) == Norm(p[1] * q[1], p[2] * q[2])
RDiv(p, q) == Norm(p[1] * q[2], p[2] * q[1])
OneMinus(p) == Norm(p[2] - p[1], p[2])

RECURSIVE RPow(_, _)
RPow(p, n) == IF n = 0 THEN <<1, 1>> ELSE RMul(p, RPow(p, n - 1))

RECURSIVE Factorial(_)
Factorial(n) == IF n <= 1 THEN 1 ELSE n * Factorial(n - 1)

\* Number(x.toFixed(4)) in ten-thousandths: x rounded to four decimals.
ToFixed4(p) == (2 * 10000 * p[1] + p[2]) \div (2 * p[2])

\* rho = lambda / (c * mu)
Rho_IgnoreServers(lambda, mu, c) == Norm(lambda, mu)
Rho(lambda, mu, c) == Norm(lambda, c * mu)

\* sum of (lambda / mu)^n / n! for n = 0 .. c - 1
RECURSIVE ErlangSum(_, _)
ErlangSum(a, c) ==
    IF c = 0 THEN <<0, 1>>
    ELSE RAdd(ErlangSum(a, c - 1), RDiv(RPow(a, c - 1), <<Factorial(c - 1), 1>>))

\* L = Lq + lambda / mu
LOf_QueueOnly(Lq, lambda, mu) == Lq
LOf(Lq, lambda, mu) == RAdd(Lq, Norm(lambda, mu))

\* The result of calculateMMcMetrics(lambda, mu, c) for lambda, mu, c > 0.
\* rho is a fraction (unrounded in the unstable result, rounded to four
\* decimals in the stable one); the other metrics are in ten-thousandths or
\* Infinity.
CalculateMMcMetrics(lambda, mu, c) ==
    LET rho == Rho(lambda, mu, c)
    IN  IF rho[1] >= rho[2]
        THEN [rho |-> rho, stable |-> FALSE, Lq |-> Infinity, L |-> Infinity,
              Wq |-> Infinity, W |-> Infinity, P0 |-> 0]
        ELSE LET a == Norm(lambda, mu)
                 lastTerm == RDiv(RPow(a, c),
                                  RMul(<<Factorial(c), 1>>, OneMinus(rho)))
                 P0 == RDiv(<<1, 1>>, RAdd(ErlangSum(a, c), lastTerm))
                 Lq == RDiv(RMul(RMul(P0, RPow(a, c)), rho),
                            RMul(<<Factorial(c), 1>>, RPow(OneMinus(rho), 2)))
                 L == LOf(Lq, lambda, mu)
                 W == RDiv(L, <<lambda, 1>>)
                 Wq == RDiv(Lq, <<lambda, 1>>)
             IN  [rho |-> Norm(ToFixed4(rho), 10000), stable |-> TRUE,
                  Lq |-> ToFixed4(Lq), L |-> ToFixed4(L),
                  Wq |-> ToFixed4(Wq), W |-> ToFixed4(W),
                  P0 |-> ToFixed4(P0)]

\* The arrival and service rates explored.
RateChoices == {1, 2, 4, 5, 10}

CallCalculateMMcMetrics ==
    /\ \E lambda \in RateChoices, mu \in RateChoices, c \in 1..MaxServers :
          call' = [fn |-> "calculateMMcMetrics",
                   args |-> [lambda |-> lambda, mu |-> mu, c |-> c],
                   out |-> CalculateMMcMetrics(lambda, mu, c)]
    /\ UNCHANGED run

\* ------------------------------------------------------ arrival tables
\* The tables of generatePoissonCPTable(lambda) as a run uses them, lambda in
\* tenths: rows x = 0, 1, 2, ... up to the row whose rounded cumulative
\* probability reaches 1 (or whose cumulative probability exceeds 1, or row
\* 49).  The first row is always pushed.  lambda = -1 gives e^1 = 2.7183 > 1
\* in row 0, so exactly one row; for a positive lambda the row count is a
\* function of lambda (8 rows for lambda = 1), and the runs take the first n
\* rows of the table for n in 1..maxRows.
CPTablesOf(lambda, maxRows) ==
    LET table == IF lambda = -10
                 THEN <<[x |-> 0, prob |-> 27183, cp |-> 27183]>>
                 ELSE GeneratePoissonCPTable(Norm(lambda, 10))
    IN  {SubSeq(table, 1, n) :
            n \in IF lambda < 0 THEN {1}
                  ELSE {m \in 1..maxRows : m <= Len(table)}}

\* arrivalCPTable: generated from rate || 1 for Poisson and Exponential
\* arrivals, [] otherwise.
ArrivalCPTables(p, maxRows) ==
    IF p.type \in {"poisson", "exponential"}
    THEN CPTablesOf(ParamOr(p.rate, 10), maxRows)
    ELSE {<<>>}

\* The customer count one short of the table's rows.
NumCustomers_OneShort(p, table) ==
    IF Len(table) > 0 THEN Len(table) - 1
    ELSE IF p.type = "uniform"
         THEN CeilTenths((ParamOr(p.b, 50) - ParamOr(p.a, 10)) + 10)
         ELSE CeilTenths(ParamOr(p.mean, 100))

\* numCustomers: the rows of the CP table, or Math.ceil(((b || 5) - (a || 1))
\* + 1) for Uniform arrivals, or Math.ceil(mean || 10).
NumCustomers(p, table) ==
    IF Len(table) > 0 THEN Len(table)
    ELSE IF p.type = "uniform"
         THEN CeilTenths((ParamOr(p.b, 50) - ParamOr(p.a, 10)) + 10)
         ELSE CeilTenths(ParamOr(p.mean, 100))

\* Normal arrivals that make runs of 0..maxCustomers customers: mean -0.5
\* (Math.ceil gives -0) and the means 1, 2, ..., maxCustomers.
CountedArrivals(maxCustomers) ==
    {NormalArrival(m) : m \in {-5} \cup {10 * n : n \in 1..maxCustomers}}

\* Arrival parameters of every distribution: rates -1, 0 and 1; means -1,
\* -0.5, and n and n - 0.7 for n in 1..maxCustomers; Uniform bounds a and b
\* among 0, 1, ..., maxCustomers + 1 in either order, and the Uniform bounds
\* a = -3 < b = -2 below 0.
AnyArrivals(maxCustomers) ==
    {TableArrival(t, r) : t \in {"poisson", "exponential"}, r \in {-10, 0, 10}}
    \cup {NormalArrival(m) :
             m \in {-10, -5} \cup {10 * n - d : n \in 1..maxCustomers, d \in {0, 7}}}
    \cup {UniformArrival(10 * a, 10 * b) : a, b \in 0..(maxCustomers + 1)}
    \cup {UniformArrival(-30, -20)}

\* ------------------------------------------------------------ construction
\* No helper function has been called.
NoCall == [fn |-> "none", args |-> <<>>, out |-> <<>>]

NewServer(i) ==
    [id |-> i, busy |-> FALSE, busyUntil |-> 0, customer |-> 0,
     totalBusyTime |-> 0, tasks |-> <<>>]

\* The averages of a run that completed no customer.
ZeroAverages ==
    [interArrival |-> 0, serviceTime |-> 0, turnAround |-> 0, waitTime |-> 0,
     responseTime |-> 0]

\* The state after the servers are built, for runs of at most maxCustomers
\* customers with enablePriority drawn from priorityModes.
InitWith(maxCustomers, priorityModes, arrivalChoices) ==
    /\ pc = "gen"
    /\ numServers \in 0..MaxServers
    /\ enablePriority \in priorityModes
    /\ priorityLevels \in 1..MaxPriorityLevels
    /\ arrivalParams \in arrivalChoices
    /\ arrivalCPTable \in ArrivalCPTables(arrivalParams, maxCustomers)
    /\ numCustomers = NumCustomers(arrivalParams, arrivalCPTable)
    /\ numCustomers <= maxCustomers
    /\ currentArrivalTime = 0
    /\ allCustomers = <<>>
    /\ queue = <<>>
    /\ servers = [i \in 1..numServers |-> NewServer(i)]
    /\ completedCustomers = <<>>
    /\ customerIndex = 0
    /\ currentTime = 0
    /\ queueLengthOverTime = <<>>
    /\ serverUtilizationOverTime = <<>>
    /\ branch = "none"
    /\ enqueued = <<>>
    /\ result = [customers |-> <<>>, servers |-> <<>>, priorityStats |-> <<>>,
                 averages |-> ZeroAverages,
                 totalArrivals |-> 0, totalServed |-> 0, cpTable |-> <<>>]
    /\ call = NoCall

Init == InitWith(MaxCustomers, BOOLEAN, CountedArrivals(MaxCustomers))

\* Runs with priority disabled.
InitFIFO == InitWith(MaxFifoCustomers, {FALSE}, CountedArrivals(MaxFifoCustomers))

\* Short runs with priority disabled, over every arrival distribution and over
\* parameter values the engine is not guarded against.
InitSetup == InitWith(MaxSetupCustomers, {FALSE}, AnyArrivals(MaxSetupCustomers))

\* ------------------------------------------------------ customer generation
\* Math.round of t tenths: floor(t / 10 + 0.5).
RoundTenths(t) == (t + 5) \div 10

\* Math.round(uniformRandom(a, b)) over the draws R in [0, 1): the sample a +
\* R * (b - a) ranges over [a, b) when a < b, is a when a = b, and ranges over
\* (b, a] when b < a.  a and b in tenths.
UniformRounded(a, b) ==
    IF a < b THEN RoundTenths(a)..(CeilTenths(b + 5) - 1)
    ELSE RoundTenths(b)..RoundTenths(a)

\* Inter-arrival times the samplers produce: 0 for the first customer, else
\* the x of a CP-table row (lookupFromCPTable, Poisson and Exponential), or
\* Math.round of a Uniform sample of getRandomValue (a || 0.5, b || 1.5), or
\* Math.round of a Normal sample (floored at 0.01, so >= 0), of which the runs
\* draw 0 (a simultaneous arrival) or MaxInterArrival.
InterArrivalChoices(i) ==
    IF i = 0 THEN {0}
    ELSE IF Len(arrivalCPTable) > 0
         THEN {arrivalCPTable[k].x : k \in 1..Len(arrivalCPTable)}
         ELSE IF arrivalParams.type = "uniform"
              THEN UniformRounded(ParamOr(arrivalParams.a, 5),
                                  ParamOr(arrivalParams.b, 15))
              ELSE {0, MaxInterArrival}

\* randomNum = Math.round(Math.random() * 10000) / 10000 of the customers after
\* the first, in ten-thousandths: with a CP table the draws that fall on the
\* cp of a row, and 1; without one the draw 0.25.
RandomNumChoices ==
    IF Len(arrivalCPTable) > 0
    THEN {r \in {arrivalCPTable[k].cp : k \in 1..Len(arrivalCPTable)} :
             r <= 10000} \cup {10000}
    ELSE {2500}

\* randomNum, interArrival and cp of customer i (0-based): 0, 0 and the cp of
\* the first row (0 without a table) for the first customer; then the row
\* lookupFromCPTable finds for the draw, or without a table a sample of
\* getRandomValue and cp = randomNum.
ArrivalDraws(i) ==
    IF i = 0
    THEN {[randomNum |-> 0, interArrival |-> x,
           cp |-> IF Len(arrivalCPTable) > 0 THEN arrivalCPTable[1].cp ELSE 0] :
             x \in InterArrivalChoices(i)}
    ELSE IF Len(arrivalCPTable) > 0
         THEN {[randomNum |-> r, interArrival |-> x,
                cp |-> LookupFromCPTable(arrivalCPTable, r).cp] :
                  <<r, x>> \in {d \in RandomNumChoices \X InterArrivalChoices(i) :
                      d[2] = LookupFromCPTable(arrivalCPTable, d[1]).value}}
         ELSE {[randomNum |-> r, interArrival |-> x, cp |-> r] :
                  r \in RandomNumChoices, x \in InterArrivalChoices(i)}

\* The draw over the levels without the test of enablePriority.
PriorityChoices_Always == 1..priorityLevels

\* Math.floor(Math.random() * priorityLevels) + 1, or 1 with priority off.
PriorityChoices == IF enablePriority THEN 1..priorityLevels ELSE {1}

\* getServiceTime: Math.max(1, Math.round(time)); the runs draw the floor 1 or
\* MaxServiceTime.
ServiceTimeChoices == {1, MaxServiceTime}

\* The randomNum getServiceTime returns with the time: the draw 0.75.
ServiceRandomNumChoices == {7500}

\* The id taken from the 0-based loop index.
NewCustomer_ZeroBasedId(i, arrival, draw, priority, serviceResult) ==
    [id |-> i, arrivalTime |-> arrival, serviceTime |-> serviceResult.time,
     remainingServiceTime |-> serviceResult.time,
     serviceRandomNum |-> serviceResult.randomNum, priority |-> priority,
     interArrival |-> draw.interArrival, randomNum |-> draw.randomNum,
     cp |-> draw.cp, firstStartTime |-> Undefined]

NewCustomer(i, arrival, draw, priority, serviceResult) ==
    [id |-> i + 1, arrivalTime |-> arrival, serviceTime |-> serviceResult.time,
     remainingServiceTime |-> serviceResult.time,
     serviceRandomNum |-> serviceResult.randomNum, priority |-> priority,
     interArrival |-> draw.interArrival, randomNum |-> draw.randomNum,
     cp |-> draw.cp, firstStartTime |-> Undefined]

\* One iteration of the generation loop; the loop ends when i = numCustomers.
GenerateCustomer ==
    /\ pc = "gen"
    /\ Len(allCustomers) < numCustomers
    /\ \E draw \in ArrivalDraws(Len(allCustomers)),
          priority \in PriorityChoices,
          serviceTime \in ServiceTimeChoices,
          serviceRandomNum \in ServiceRandomNumChoices :
          /\ currentArrivalTime' = currentArrivalTime + draw.interArrival
          /\ allCustomers' = Append(allCustomers,
                 NewCustomer(Len(allCustomers), currentArrivalTime',
                             draw, priority,
                             [time |-> serviceTime,
                              randomNum |-> serviceRandomNum]))
    /\ UNCHANGED <<pc, params, call, queue, servers, completedCustomers,
                   customerIndex, currentTime, queueLengthOverTime,
                   serverUtilizationOverTime, branch, enqueued, result>>

StartLoop ==
    /\ pc = "gen"
    /\ ~(Len(allCustomers) < numCustomers)
    /\ pc' = "loop"
    /\ UNCHANGED <<params, call, currentArrivalTime, allCustomers, queue, servers,
                   completedCustomers, customerIndex, currentTime,
                   queueLengthOverTime, serverUtilizationOverTime, branch,
                   enqueued, result>>

\* ------------------------------------------------------------- event loop
AnyBusy == \E i \in 1..Len(servers) : servers[i].busy

\* while (customerIndex < allCustomers.length || queue.length > 0 || servers.some(s => s.busy))
LoopCondition ==
    customerIndex < Len(allCustomers) \/ Len(queue) > 0 \/ AnyBusy

\* Faulty variant: a departure due at the arrival's own time is taken first.
EarlierThan_OrEqual(busyUntil, nextEventTime) == busyUntil <= nextEventTime

\* A departure replaces the pending event only if it is strictly earlier.
EarlierThan(busyUntil, nextEventTime) == busyUntil < nextEventTime

\* nextEventTime / nextEventType / departingServerIndex before the server scan.
FirstCandidate ==
    [time |-> IF customerIndex < Len(allCustomers)
              THEN allCustomers[customerIndex + 1].arrivalTime
              ELSE Infinity,
     type |-> "arrival",
     departingServerIndex |-> -1]

\* for (let i = 0; i < servers.length; i++) if (busy && busyUntil < nextEventTime) ...
RECURSIVE ScanDepartures(_, _)
ScanDepartures(i, ev) ==
    IF i >= Len(servers) THEN ev
    ELSE ScanDepartures(i + 1,
            IF servers[i + 1].busy /\ EarlierThan(servers[i + 1].busyUntil, ev.time)
            THEN [time |-> servers[i + 1].busyUntil, type |-> "departure",
                  departingServerIndex |-> i]
            ELSE ev)

NextEvent == ScanDepartures(0, FirstCandidate)

\* The iteration runs past `if (nextEventTime === Infinity) break`.
EventPending == LoopCondition /\ NextEvent.time # Infinity

\* if (nextEventType === 'arrival' && customerIndex < allCustomers.length)
DispatchArrival ==
    NextEvent.type = "arrival" /\ customerIndex < Len(allCustomers)

\* else if (nextEventType === 'departure' && departingServerIndex !== -1)
DispatchDeparture ==
    /\ ~DispatchArrival
    /\ NextEvent.type = "departure" /\ NextEvent.departingServerIndex # -1

\* The count of the servers that are free.
BusyServers_Free == Cardinality({i \in 1..Len(servers) : ~servers[i].busy})

BusyServers == Cardinality({i \in 1..Len(servers) : servers[i].busy})

\* Math.round((busyServers / numServers) * 100); 0 / 0 is NaN.
Utilization(busy) ==
    IF numServers = 0 THEN NaN
    ELSE (200 * busy + numServers) \div (2 * numServers)

\* The two samples pushed before the event is dispatched.
Sample(now) ==
    /\ queueLengthOverTime' = Append(queueLengthOverTime,
           [time |-> now, queueLength |-> Len(queue)])
    /\ serverUtilizationOverTime' = Append(serverUtilizationOverTime,
           [time |-> now, utilization |-> Utilization(BusyServers)])

\* servers.findIndex(s => !s.busy): 0-based, -1 if none.
FreeServerIndex ==
    IF \E i \in 1..Len(servers) : ~servers[i].busy
    THEN (CHOOSE i \in 1..Len(servers) :
             /\ ~servers[i].busy
             /\ \A j \in 1..(i - 1) : servers[j].busy) - 1
    ELSE -1

\* Start `c` (a customer object) on server record `s` at time `now`.
StartService(s, c, now) ==
    [s EXCEPT !.busy = TRUE,
              !.busyUntil = now + c.remainingServiceTime,
              !.customer = c.id,
              !.totalBusyTime = @ + c.remainingServiceTime,
              !.tasks = Append(@, [customerId |-> c.id, start |-> now,
                                   end |-> now + c.remainingServiceTime,
                                   priority |-> c.priority])]

\* Faulty variant: an occupant of equal priority is preempted too.
Outranked_OrEqual(p, lowestPriority) == p >= lowestPriority

\* Faulty variant: no occupant is ever found to preempt.
Outranked_Never(p, lowestPriority) == FALSE

\* An occupant of priority p can replace the current preemption candidate.
Outranked(p, lowestPriority) == p > lowestPriority

\* The scan for lowestPriorityServerIndex; acc = [index, lowestPriority].
RECURSIVE ScanPreempt(_, _)
ScanPreempt(i, acc) ==
    IF i >= Len(servers) THEN acc
    ELSE ScanPreempt(i + 1,
            IF /\ servers[i + 1].busy
               /\ servers[i + 1].customer # 0
               /\ Outranked(allCustomers[servers[i + 1].customer].priority,
                            acc.lowestPriority)
            THEN [index |-> i,
                  lowestPriority |-> allCustomers[servers[i + 1].customer].priority]
            ELSE acc)

\* Faulty variant: of the occupants with the largest priority number above the
\* arrival's, the one on the last server is chosen.
LowestPriorityServerIndex_Last(c) ==
    LET eligible == {i \in 1..Len(servers) :
                        /\ servers[i].busy
                        /\ allCustomers[servers[i].customer].priority > c.priority
                        /\ \A j \in 1..Len(servers) : servers[j].busy =>
                              allCustomers[servers[j].customer].priority
                                  <= allCustomers[servers[i].customer].priority}
    IN  IF eligible = {} THEN -1
        ELSE (CHOOSE i \in eligible : \A j \in eligible : j <= i) - 1

LowestPriorityServerIndex(c) ==
    ScanPreempt(0, [index |-> -1, lowestPriority |-> c.priority]).index

\* Faulty variant: insertion ahead of queued customers of equal priority.
InsertBefore_OrEqual(qPriority, p) == qPriority >= p

\* q.priority > p, the test of queue.findIndex.
InsertBefore(qPriority, p) == qPriority > p

\* queue.findIndex(q => q.priority > p): 0-based, -1 if none.
InsertIndex(q, p) ==
    IF \E k \in 1..Len(q) : InsertBefore(allCustomers[q[k]].priority, p)
    THEN (CHOOSE k \in 1..Len(q) :
             /\ InsertBefore(allCustomers[q[k]].priority, p)
             /\ \A j \in 1..(k - 1) :
                   ~InsertBefore(allCustomers[q[j]].priority, p)) - 1
    ELSE -1

\* Faulty variant: the push of the insertIndex === -1 case is missing.
InsertByPriority_NoPush(q, id) ==
    LET insertIndex == InsertIndex(q, allCustomers[id].priority)
    IN  IF insertIndex = -1 THEN q
        ELSE SubSeq(q, 1, insertIndex) \o <<id>> \o SubSeq(q, insertIndex + 1, Len(q))

\* queue.push(c) if insertIndex === -1, else queue.splice(insertIndex, 0, c).
InsertByPriority(q, id) ==
    LET insertIndex == InsertIndex(q, allCustomers[id].priority)
    IN  IF insertIndex = -1 THEN Append(q, id)
        ELSE SubSeq(q, 1, insertIndex) \o <<id>> \o SubSeq(q, insertIndex + 1, Len(q))

\* Faulty variant: unshift instead of push.
Enqueue_Front(q, id) == <<id>> \o q

\* queue.push(customer) of the FIFO branch.
Enqueue(q, id) == Append(q, id)

\* server.tasks[server.tasks.length - 1]?.start
LastTaskStart(tasks) ==
    IF Len(tasks) = 0 THEN Undefined ELSE tasks[Len(tasks)].start

\* currentTime - (lastTask?.start || currentTime)
TimeServed(tasks, now) == now - OrElse(LastTaskStart(tasks), now)

\* The remainder without its floor of 1.
RemainingAfterPreempt_NoFloor(remaining, timeServed) == remaining - timeServed

\* Math.max(1, remainingServiceTime - timeServed)
RemainingAfterPreempt(remaining, timeServed) == MathMax(1, remaining - timeServed)

\* Faulty variant: the interrupted interval keeps its scheduled end.
TruncateLast_Skip(tasks, now) == tasks

\* server.tasks[server.tasks.length - 1].end = currentTime
TruncateLast(tasks, now) ==
    IF Len(tasks) > 0 THEN [tasks EXCEPT ![Len(tasks)].end = now] ELSE tasks

\* Arrival, a server is free: start service immediately.
ArrivalStart ==
    /\ pc = "loop" /\ EventPending
    /\ DispatchArrival
    /\ FreeServerIndex # -1
    /\ LET now == NextEvent.time
           id == customerIndex + 1
           c == [allCustomers[id] EXCEPT !.firstStartTime = now]
       IN  /\ currentTime' = now
           /\ Sample(now)
           /\ customerIndex' = customerIndex + 1
           /\ allCustomers' = [allCustomers EXCEPT ![id] = c]
           /\ servers' = [servers EXCEPT ![FreeServerIndex + 1] =
                             StartService(@, c, now)]
           /\ branch' = "start"
    /\ UNCHANGED <<pc, params, call, currentArrivalTime, queue, completedCustomers,
                   enqueued, result>>

\* Arrival, no server free, priority on, an occupant is outranked: preempt it.
ArrivalPreempt ==
    /\ pc = "loop" /\ EventPending
    /\ DispatchArrival
    /\ FreeServerIndex = -1
    /\ enablePriority
    /\ LowestPriorityServerIndex(allCustomers[customerIndex + 1]) # -1
    /\ LET now == NextEvent.time
           id == customerIndex + 1
           si == LowestPriorityServerIndex(allCustomers[id]) + 1
           pid == servers[si].customer
           timeServed == TimeServed(servers[si].tasks, now)
           c == [allCustomers[id] EXCEPT !.firstStartTime = now]
       IN  /\ currentTime' = now
           /\ Sample(now)
           /\ customerIndex' = customerIndex + 1
           /\ allCustomers' =
                 [allCustomers EXCEPT
                     ![pid].remainingServiceTime =
                         RemainingAfterPreempt(@, timeServed),
                     ![id] = c]
           /\ queue' = InsertByPriority(queue, pid)
           /\ enqueued' = Append(enqueued, pid)
           /\ servers' = [servers EXCEPT ![si] =
                 StartService([@ EXCEPT !.tasks = TruncateLast(@, now)], c, now)]
           /\ branch' = "preempt"
    /\ UNCHANGED <<pc, params, call, currentArrivalTime, completedCustomers, result>>

\* Arrival, no server free, priority on, nobody to preempt: priority enqueue.
ArrivalEnqueuePriority ==
    /\ pc = "loop" /\ EventPending
    /\ DispatchArrival
    /\ FreeServerIndex = -1
    /\ enablePriority
    /\ LowestPriorityServerIndex(allCustomers[customerIndex + 1]) = -1
    /\ currentTime' = NextEvent.time
    /\ Sample(NextEvent.time)
    /\ customerIndex' = customerIndex + 1
    /\ queue' = InsertByPriority(queue, customerIndex + 1)
    /\ enqueued' = Append(enqueued, customerIndex + 1)
    /\ branch' = "enqueue_priority"
    /\ UNCHANGED <<pc, params, call, currentArrivalTime, allCustomers, servers,
                   completedCustomers, result>>

\* Arrival, no server free, priority off: FIFO enqueue.
ArrivalEnqueueFIFO ==
    /\ pc = "loop" /\ EventPending
    /\ DispatchArrival
    /\ FreeServerIndex = -1
    /\ ~enablePriority
    /\ currentTime' = NextEvent.time
    /\ Sample(NextEvent.time)
    /\ customerIndex' = customerIndex + 1
    /\ queue' = Enqueue(queue, customerIndex + 1)
    /\ enqueued' = Append(enqueued, customerIndex + 1)
    /\ branch' = "enqueue_fifo"
    /\ UNCHANGED <<pc, params, call, currentArrivalTime, allCustomers, servers,
                   completedCustomers, result>>

\* completedCustomers.set(id, data): replace the entry of a present key in
\* place, else append (a Map iterates in first-insertion order).
MapSet(m, data) ==
    IF \E k \in 1..Len(m) : m[k].id = data.id
    THEN [k \in 1..Len(m) |-> IF m[k].id = data.id THEN data ELSE m[k]]
    ELSE Append(m, data)

\* The subtraction written the wrong way round.
WaitTime_Reversed(c, now) == c.arrivalTime - OrElse(c.firstStartTime, now)

\* (finishedCustomer.firstStartTime || currentTime) - finishedCustomer.arrivalTime
WaitTime(c, now) == OrElse(c.firstStartTime, now) - c.arrivalTime

\* if (!nextCustomer.firstStartTime) nextCustomer.firstStartTime = startTime
FirstStartOnDispatch(firstStartTime, now) ==
    IF Falsy(firstStartTime) THEN now ELSE firstStartTime

\* Faulty variant: the customer at the tail of the queue is taken.
ShiftHead_Last(q) == q[Len(q)]

\* queue.shift(): the customer taken, and the queue left.
ShiftHead(q) == Head(q)
\* Faulty variant: the head is read but left on the queue.
ShiftRest_Keep(q) == q
ShiftRest(q) == Tail(q)

\* Departure: finalize the occupant, free the server, dispatch the queue head.
Departure ==
    /\ pc = "loop" /\ EventPending
    /\ DispatchDeparture
    /\ LET now == NextEvent.time
           si == NextEvent.departingServerIndex + 1
           finished == allCustomers[servers[si].customer]
           waitTime == WaitTime(finished, now)
           freed == [servers[si] EXCEPT !.busy = FALSE, !.customer = 0]
       IN  /\ currentTime' = now
           /\ Sample(now)
           /\ completedCustomers' = MapSet(completedCustomers,
                 [id |-> finished.id, waitTime |-> waitTime,
                  responseTime |-> waitTime, endTime |-> now,
                  serverId |-> servers[si].id])
           /\ IF Len(queue) > 0
              THEN LET nid == ShiftHead(queue)
                       c == [allCustomers[nid] EXCEPT !.firstStartTime =
                                FirstStartOnDispatch(@, now)]
                   IN  /\ queue' = ShiftRest(queue)
                       /\ allCustomers' = [allCustomers EXCEPT ![nid] = c]
                       /\ servers' = [servers EXCEPT ![si] =
                                         StartService(freed, c, now)]
              ELSE /\ servers' = [servers EXCEPT ![si] = freed]
                   /\ UNCHANGED <<queue, allCustomers>>
           /\ branch' = "departure"
    /\ UNCHANGED <<pc, params, call, currentArrivalTime, customerIndex, enqueued,
                   result>>

\* --------------------------------------------------------- result building
RECURSIVE SumSeq(_)
SumSeq(s) == IF Len(s) = 0 THEN 0 ELSE Head(s) + SumSeq(Tail(s))

\* customers.sort((a, b) => a.id - b.id): stable insertion by ascending id.
RECURSIVE SortById(_)
InsertById(sorted, r) ==
    LET k == Cardinality({j \in 1..Len(sorted) : sorted[j].id <= r.id})
    IN  SubSeq(sorted, 1, k) \o <<r>> \o SubSeq(sorted, k + 1, Len(sorted))
SortById(s) ==
    IF Len(s) = 0 THEN <<>>
    ELSE InsertById(SortById(SubSeq(s, 1, Len(s) - 1)), s[Len(s)])

\* The record with startTime taken from the arrival.
CustomerRecord_StartAtArrival(data) ==
    LET c == allCustomers[data.id]
    IN  [id |-> c.id, randomNum |-> c.randomNum, cp |-> c.cp,
         interArrival |-> c.interArrival,
         arrivalTime |-> c.arrivalTime, priority |-> c.priority,
         serviceTime |-> c.serviceTime,
         serviceRandomNum |-> c.serviceRandomNum,
         startTime |-> c.arrivalTime,
         endTime |-> data.endTime,
         turnAround |-> data.endTime - c.arrivalTime,
         waitTime |-> data.waitTime, responseTime |-> data.responseTime,
         serverId |-> data.serverId]

\* The record with serviceTime read from the remaining service time.
CustomerRecord_ServiceFromRemaining(data) ==
    LET c == allCustomers[data.id]
    IN  [id |-> c.id, randomNum |-> c.randomNum, cp |-> c.cp,
         interArrival |-> c.interArrival,
         arrivalTime |-> c.arrivalTime, priority |-> c.priority,
         serviceTime |-> c.remainingServiceTime,
         serviceRandomNum |-> c.serviceRandomNum,
         startTime |-> OrElse(c.firstStartTime, c.arrivalTime),
         endTime |-> data.endTime,
         turnAround |-> data.endTime - c.arrivalTime,
         waitTime |-> data.waitTime, responseTime |-> data.responseTime,
         serverId |-> data.serverId]

\* The CustomerRecord built from a completedCustomers entry.
CustomerRecord(data) ==
    LET c == allCustomers[data.id]
    IN  [id |-> c.id, randomNum |-> c.randomNum, cp |-> c.cp,
         interArrival |-> c.interArrival,
         arrivalTime |-> c.arrivalTime, priority |-> c.priority,
         serviceTime |-> c.serviceTime,
         serviceRandomNum |-> c.serviceRandomNum,
         startTime |-> OrElse(c.firstStartTime, c.arrivalTime),
         endTime |-> data.endTime,
         turnAround |-> data.endTime - c.arrivalTime,
         waitTime |-> data.waitTime, responseTime |-> data.responseTime,
         serverId |-> data.serverId]

\* The busy time as accumulated at dispatch, not reduced by a preemption.
ServerBusyTime_Accumulated(s) == s.totalBusyTime

\* s.tasks.reduce((sum, task) => sum + (task.end - task.start), 0)
ServerBusyTime(s) ==
    SumSeq([k \in 1..Len(s.tasks) |-> s.tasks[k].end - s.tasks[k].start])

\* The sum over all servers of the realized busy time.
TotalBusyTime == SumSeq([i \in 1..Len(servers) |-> ServerBusyTime(servers[i])])

\* Math.round((num / den) * 100) / 100 for num >= 0, den > 0, in hundredths.
Round2(num, den) == (200 * num + den) \div (2 * den)

\* Math.round((actualBusyTime / totalBusyTime) * 10000) / 100, in hundredths
\* of a percent; 0 when no work was done.
ShareOfWork(actualBusyTime, totalBusyTime) ==
    IF totalBusyTime > 0
    THEN (20000 * actualBusyTime + totalBusyTime) \div (2 * totalBusyTime)
    ELSE 0

ServerRecord(s) ==
    [id |-> s.id, busyTime |-> ServerBusyTime(s),
     utilization |-> ShareOfWork(ServerBusyTime(s), TotalBusyTime),
     tasks |-> s.tasks]

\* Faulty variant: no filter, every customer counts for every level.
WithPriority_All(cs, p) == cs

\* customers.filter(c => c.priority === p), order kept.
RECURSIVE WithPriority(_, _)
WithPriority(cs, p) ==
    IF Len(cs) = 0 THEN <<>>
    ELSE (IF Head(cs).priority = p THEN <<Head(cs)>> ELSE <<>>)
         \o WithPriority(Tail(cs), p)

\* One priorityStats entry (averages in hundredths) over the customers cs.
PriorityStat(p, cs) ==
    [priority |-> p,
     avgWait |-> Round2(SumSeq([k \in 1..Len(cs) |-> cs[k].waitTime]), Len(cs)),
     avgResponse |->
         Round2(SumSeq([k \in 1..Len(cs) |-> cs[k].responseTime]), Len(cs)),
     avgInterArrival |->
         Round2(SumSeq([k \in 1..Len(cs) |-> cs[k].interArrival]), Len(cs)),
     avgTurnAround |->
         Round2(SumSeq([k \in 1..Len(cs) |-> cs[k].turnAround]), Len(cs))]

\* for (p = 1; p <= (enablePriority ? priorityLevels : 1); p++): the entries
\* of levels p..last that have a completed customer.
RECURSIVE PriorityStats(_, _, _)
PriorityStats(cs, p, last) ==
    IF p > last THEN <<>>
    ELSE (IF Len(WithPriority(cs, p)) > 0
          THEN <<PriorityStat(p, WithPriority(cs, p))>> ELSE <<>>)
         \o PriorityStats(cs, p + 1, last)

\* The global averages (in hundredths) over the completed customers cs.
Averages(cs) ==
    IF Len(cs) > 0
    THEN [interArrival |->
              Round2(SumSeq([k \in 1..Len(cs) |-> cs[k].interArrival]), Len(cs)),
          serviceTime |->
              Round2(SumSeq([k \in 1..Len(cs) |-> cs[k].serviceTime]), Len(cs)),
          turnAround |->
              Round2(SumSeq([k \in 1..Len(cs) |-> cs[k].turnAround]), Len(cs)),
          waitTime |->
              Round2(SumSeq([k \in 1..Len(cs) |-> cs[k].waitTime]), Len(cs)),
          responseTime |->
              Round2(SumSeq([k \in 1..Len(cs) |-> cs[k].responseTime]), Len(cs))]
    ELSE ZeroAverages

\* The customer records of the result, sorted by id.
ResultCustomers ==
    SortById([k \in 1..Len(completedCustomers) |->
                 CustomerRecord(completedCustomers[k])])

\* The loop is left (condition false, or break) and the result is returned;
\* the two time series are returned as they stand.
Finish ==
    /\ pc = "loop"
    /\ ~EventPending
    /\ pc' = "done"
    /\ result' =
          [customers |-> ResultCustomers,
           servers |-> [i \in 1..Len(servers) |-> ServerRecord(servers[i])],
           priorityStats |->
               PriorityStats(ResultCustomers, 1,
                             IF enablePriority THEN priorityLevels ELSE 1),
           averages |-> Averages(ResultCustomers),
           totalArrivals |-> numCustomers,
           totalServed |-> Len(ResultCustomers),
           cpTable |-> arrivalCPTable]
    /\ UNCHANGED <<params, call, currentArrivalTime, allCustomers, queue, servers,
                   completedCustomers, customerIndex, currentTime,
                   queueLengthOverTime, serverUtilizationOverTime, branch,
                   enqueued>>

Next ==
    \/ GenerateCustomer
    \/ StartLoop
    \/ ArrivalStart
    \/ ArrivalPreempt
    \/ ArrivalEnqueuePriority
    \/ ArrivalEnqueueFIFO
    \/ Departure
    \/ Finish

Spec == Init /\ [][Next]_vars

\* The steps of a run with priority disabled.
NextFIFO ==
    \/ GenerateCustomer
    \/ StartLoop
    \/ ArrivalStart
    \/ ArrivalEnqueueFIFO
    \/ Departure
    \/ Finish

SpecFIFO == InitFIFO /\ [][NextFIFO]_vars

\* The same steps from the wider set of arrival parameters.
SpecSetup == InitSetup /\ [][NextFIFO]_vars

\* --------------------------------------------------- helper function calls
\* No run in progress: the state at the entry of runSimulation, for a run of
\* no customer on one server.
InitCalls ==
    /\ InitWith(0, {FALSE}, CountedArrivals(0))
    /\ numServers = 1
    /\ priorityLevels = 1

NextCalls ==
    \/ CallLookupFromCPTable
    \/ CallGetServiceTime
    \/ CallGeneratePoissonCPTable
    \/ CallCalculateMMcMetrics

\* The calls of the helper functions, in any order.
SpecCalls == InitCalls /\ [][NextCalls]_vars

\* ------------------------------------------------------ claim vocabulary
Ids == 1..Len(allCustomers)
ServerIds == 1..Len(servers)

\* A step of the event loop (one dispatched event): one more sample is taken.
EventStep == Len(queueLengthOverTime') = Len(queueLengthOverTime) + 1

\* An arrival event: the next customer is consumed.
ArrivalStep == customerIndex' = customerIndex + 1

\* The servers whose occupant is taken off by this step's arriving customer.
PreemptedServers ==
    {s \in ServerIds : /\ servers[s].busy
                       /\ servers'[s].customer # servers[s].customer}

\* Every recorded service interval, as <<server, position in its task list>>.
TaskRefs ==
    UNION {{<<s, k>> : k \in 1..Len(servers[s].tasks)} : s \in ServerIds}

TaskAt(ref) == servers[ref[1]].tasks[ref[2]]

\* The service intervals recorded for customer id, on any server.
TasksOf(id) == {ref \in TaskRefs : TaskAt(ref).customerId = id}

Prio(id) == allCustomers[id].priority

Min(S) == CHOOSE x \in S : \A y \in S : x <= y

\* The time at which customer id first entered service, read off the Gantt
\* intervals of the servers.
FirstServiceStart(id) == Min({TaskAt(ref).start : ref \in TasksOf(id)})

\* ------------------------------------------------------------------ C1
\* C1: for every completed customer of the result, waitTime is the time the
\* customer first entered service minus its arrivalTime, and startTime is that
\* first-service time (so a customer served on arrival has waitTime 0).
C1_WaitFromFirstService ==
    pc = "done" =>
        \A k \in 1..Len(result.customers) :
            LET r == result.customers[k]
            IN  /\ r.waitTime = FirstServiceStart(r.id) - r.arrivalTime
                /\ r.startTime = FirstServiceStart(r.id)

\* ------------------------------------------------------------------ C2
\* C2: once a customer's firstStartTime is set, no later step (preemption,
\* re-queueing, re-dispatch on a departure) changes it.
C2_FirstStartImmutable ==
    [][\A id \in Ids :
          allCustomers[id].firstStartTime # Undefined =>
              allCustomers'[id].firstStartTime = allCustomers[id].firstStartTime]_vars

\* ------------------------------------------------------------------ C3
\* C3: when an arrival preempts an occupant at time now, the occupant's
\* remainingServiceTime becomes max(1, remainingServiceTime - (now - start of
\* its current interval)), and that interval is truncated to end at now.
C3_PreemptReducesRemaining ==
    [][ArrivalStep =>
          \A s \in PreemptedServers :
              LET p == servers[s].customer
                  last == Len(servers[s].tasks)
                  now == currentTime'
                  elapsed == now - servers[s].tasks[last].start
              IN  /\ allCustomers'[p].remainingServiceTime =
                        MathMax(1, allCustomers[p].remainingServiceTime - elapsed)
                  /\ servers'[s].tasks[last].end = now]_vars

PendingTimes ==
    (IF customerIndex < Len(allCustomers)
     THEN {allCustomers[customerIndex + 1].arrivalTime} ELSE {})
    \cup {servers[s].busyUntil : s \in {t \in ServerIds : servers[t].busy}}

\* C5: every iteration processes the earliest pending event (the minimum of the
\* next arrival time and the busy servers' busyUntil), and an arrival that ties
\* with a departure is processed first.
C5_EarliestEventFirst ==
    [][EventStep =>
          /\ currentTime' = Min(PendingTimes)
          /\ (/\ customerIndex < Len(allCustomers)
              /\ allCustomers[customerIndex + 1].arrivalTime = Min(PendingTimes))
                => ArrivalStep
          /\ ~ArrivalStep =>
                \E s \in ServerIds :
                    /\ servers[s].busy
                    /\ servers[s].busyUntil = Min(PendingTimes)
                    /\ Len(completedCustomers') = Len(completedCustomers) + 1
                    /\ completedCustomers'[Len(completedCustomers')].id =
                           servers[s].customer]_vars

\* An arrival was just processed while a departure is due at the same time.
C5_Witness ==
    /\ pc = "loop"
    /\ branch \in {"start", "preempt", "enqueue_priority", "enqueue_fifo"}
    /\ \E s \in ServerIds :
          /\ servers[s].busy /\ servers[s].busyUntil = currentTime
          /\ servers[s].customer # customerIndex

\* ------------------------------------------------------------------ C6
CompletedIds == {completedCustomers[k].id : k \in 1..Len(completedCustomers)}

Terminated ==
    /\ pc = "done"
    /\ Len(allCustomers) = numCustomers
    /\ customerIndex = numCustomers
    /\ queue = <<>>
    /\ ~AnyBusy
    /\ CompletedIds = 1..numCustomers
    /\ Len(completedCustomers) = numCustomers
    \* one sample per event: numCustomers arrivals, so numCustomers departures
    /\ Len(queueLengthOverTime) = 2 * numCustomers
    /\ result.totalServed = result.totalArrivals
    /\ Len(result.customers) = numCustomers

Bit(b) == IF b THEN 1 ELSE 0

\* C7: after every event each generated customer is in exactly one of: not yet
\* arrived, waiting in the queue (once), in service on one server, completed;
\* and a server is busy exactly when it holds a customer.
C7_ExactlyOneState ==
    /\ \A id \in Ids :
          Bit(id > customerIndex)
          + Cardinality({k \in 1..Len(queue) : queue[k] = id})
          + Cardinality({s \in ServerIds : servers[s].customer = id})
          + Bit(id \in CompletedIds) = 1
    /\ \A s \in ServerIds : servers[s].busy <=> servers[s].customer # 0

\* Customers waiting, in service and completed at the same instant.
C7_Witness ==
    /\ Len(queue) > 0 /\ AnyBusy /\ Len(completedCustomers) > 0

QueueSorted ==
    \A j \in 1..(Len(queue) - 1) : Prio(queue[j]) <= Prio(queue[j + 1])

RemoveAt(q, k) == SubSeq(q, 1, k - 1) \o SubSeq(q, k + 1, Len(q))

\* C9: with priority enabled the queue is always sorted by non-decreasing
\* priority number, and every insertion puts the customer after every queued
\* customer of the same or a smaller priority number and before every queued
\* customer of a larger one, leaving the others in place.
C9_PriorityQueueStable ==
    /\ [](enablePriority => QueueSorted)
    /\ [][(enablePriority /\ Len(queue') = Len(queue) + 1) =>
             \E k \in 1..Len(queue') :
                 /\ RemoveAt(queue', k) = queue
                 /\ \A j \in 1..(k - 1) : Prio(queue'[j]) <= Prio(queue'[k])
                 /\ \A j \in (k + 1)..Len(queue') :
                       Prio(queue'[j]) > Prio(queue'[k])]_vars

\* A busy system in which a later arrival of higher priority was inserted
\* ahead of an earlier, lower-priority one.
C9_Witness ==
    /\ enablePriority /\ numServers >= 1 /\ Len(queue) >= 2
    /\ queue[1] > queue[2] /\ Prio(queue[1]) < Prio(queue[2])
    /\ branch = "enqueue_priority"

\* ------------------------------------------------------------------ C10
CompletionIndex(id) ==
    (CHOOSE k \in 1..Len(completedCustomers) : completedCustomers[k].id = id)

Departed(id) == id \in CompletedIds
DepartureTime(id) == completedCustomers[CompletionIndex(id)].endTime
Started(id) == TasksOf(id) # {}

\* C10 as stated: with priority disabled, of two enqueued customers the one
\* enqueued earlier departs its server no later than the other, for any number
\* of servers.
C10_DepartInQueueOrder ==
    ~enablePriority =>
        \A a, b \in 1..Len(enqueued) :
            (a < b /\ Departed(enqueued[b])) =>
                /\ Departed(enqueued[a])
                /\ DepartureTime(enqueued[a]) <= DepartureTime(enqueued[b])

\* C10 amended: with priority disabled, of two enqueued customers the one
\* enqueued earlier enters service no later than the other, for any number of
\* servers; with a single server it also departs no later.
C10_ServeInQueueOrder ==
    ~enablePriority =>
        \A a, b \in 1..Len(enqueued) :
            a < b =>
                /\ Started(enqueued[b]) =>
                      /\ Started(enqueued[a])
                      /\ FirstServiceStart(enqueued[a]) <= FirstServiceStart(enqueued[b])
                /\ (numServers = 1 /\ Departed(enqueued[b])) =>
                      /\ Departed(enqueued[a])
                      /\ DepartureTime(enqueued[a]) <= DepartureTime(enqueued[b])

\* Two servers: the customer enqueued first left its server after the second.
C10_Witness ==
    /\ ~enablePriority /\ numServers >= 2 /\ Len(enqueued) >= 2
    /\ Departed(enqueued[1]) /\ Departed(enqueued[2])
    /\ DepartureTime(enqueued[1]) > DepartureTime(enqueued[2])

\* ------------------------------------------------------------------ C11
\* C11: every customer record of the result has turnAround = endTime -
\* arrivalTime, turnAround >= waitTime >= 0 and responseTime = waitTime.
C11_TurnAroundBoundsWait ==
    pc = "done" =>
        \A k \in 1..Len(result.customers) :
            LET r == result.customers[k]
            IN  /\ r.turnAround = r.endTime - r.arrivalTime
                /\ r.turnAround >= r.waitTime
                /\ r.waitTime >= 0
                /\ r.responseTime = r.waitTime

\* A finished run with a customer that waited in the queue before its service.
C11_Witness ==
    /\ pc = "done"
    /\ \E k \in 1..Len(result.customers) :
          /\ result.customers[k].waitTime > 0
          /\ result.customers[k].turnAround > result.customers[k].waitTime
          /\ result.customers[k].id \in {enqueued[j] : j \in 1..Len(enqueued)}

\* ------------------------------------------------------------------ C12
\* The customer was taken off a server before its service was over: one of its
\* service intervals is followed by another, or it is back in the wait queue.
WasPreempted(id) ==
    \/ Cardinality(TasksOf(id)) >= 2
    \/ /\ TasksOf(id) # {}
       /\ \E k \in 1..Len(queue) : queue[k] = id

\* C12: in every state every customer has 1 <= remainingServiceTime <=
\* serviceTime, and a customer never preempted so far has remainingServiceTime
\* = serviceTime.
C12_RemainingWithinService ==
    \A id \in Ids :
        /\ 1 <= allCustomers[id].remainingServiceTime
        /\ allCustomers[id].remainingServiceTime <= allCustomers[id].serviceTime
        /\ ~WasPreempted(id) =>
              allCustomers[id].remainingServiceTime = allCustomers[id].serviceTime

\* A preempted customer whose remainder was reduced to exactly the floor 1 by a
\* preemption at the instant its service was due to end.
C12_Witness ==
    /\ branch = "preempt"
    /\ \E id \in Ids :
          /\ WasPreempted(id)
          /\ \E k \in 1..Len(queue) : queue[k] = id
          /\ allCustomers[id].remainingServiceTime = 1
          /\ \E ref \in TasksOf(id) :
                /\ TaskAt(ref).start > 0
                /\ TaskAt(ref).end - TaskAt(ref).start = allCustomers[id].serviceTime

\* ------------------------------------------------------------------ C13
\* C13: with priority disabled no customer is preempted: every recorded
\* service interval has the length of its customer's serviceTime, no customer
\* has more than one interval or a reduced remainder, and in the result every
\* customer has exactly one interval and endTime - startTime = serviceTime.
C13_NoPreemptionWithoutPriority ==
    ~enablePriority =>
        /\ \A id \in Ids : ~WasPreempted(id)
        /\ \A ref \in TaskRefs :
              TaskAt(ref).end - TaskAt(ref).start =
                  allCustomers[TaskAt(ref).customerId].serviceTime
        /\ branch # "preempt"
        /\ pc = "done" =>
              \A k \in 1..Len(result.customers) :
                  LET r == result.customers[k]
                  IN  /\ Cardinality(TasksOf(r.id)) = 1
                      /\ r.endTime - r.startTime = r.serviceTime

\* A finished run without priority in which a customer waited behind a busy
\* server, so its startTime is later than its arrival.
C13_Witness ==
    /\ ~enablePriority /\ pc = "done" /\ numServers >= 1
    /\ \E k \in 1..Len(result.customers) :
          /\ result.customers[k].waitTime > 0
          /\ result.customers[k].startTime > result.customers[k].arrivalTime

\* ------------------------------------------------------------------ C14
\* C14: a run with numServers = 0 (or with priority enabled and priorityLevels
\* <= 0) is rejected before any customer is generated: no customer object is
\* ever built and no result is returned.
C14_ZeroServersRejected ==
    (numServers = 0 \/ (enablePriority /\ priorityLevels <= 0)) =>
        /\ allCustomers = <<>>
        /\ pc # "done"

\* ------------------------------------------------------------------ C15
\* The arrival parameters the specification calls invalid.
InvalidArrival(p) ==
    \/ p.type \in {"poisson", "exponential"} /\ p.rate <= 0
    \/ p.type = "uniform" /\ p.b <= p.a

\* C15: a run whose arrival distribution has a Poisson/Exponential rate <= 0,
\* or Uniform bounds with b <= a, is rejected before customer generation: no
\* customer object is ever built and no result is returned.
C15_InvalidArrivalRejected ==
    InvalidArrival(arrivalParams) =>
        /\ allCustomers = <<>>
        /\ pc # "done"

\* ------------------------------------------------------------------ C16
\* C16: a finished run that generated or completed no customer has all five
\* averages 0, no priorityStats entry, utilization 0 for every server, and no
\* value that came out of a division by zero.
C16_EmptyRunDefined ==
    (pc = "done" /\ (allCustomers = <<>> \/ result.totalServed = 0)) =>
        /\ result.averages = ZeroAverages
        /\ result.priorityStats = <<>>
        /\ \A i \in 1..Len(result.servers) : result.servers[i].utilization = 0
        /\ \A k \in 1..Len(serverUtilizationOverTime) :
              serverUtilizationOverTime[k].utilization # NaN

\* ------------------------------------------------------------------ C17
\* The realized busy time of server i of the result: the summed lengths of its
\* Gantt intervals as returned (truncated where a preemption cut them).
RealizedBusyTime(i) ==
    SumSeq([k \in 1..Len(result.servers[i].tasks) |->
               result.servers[i].tasks[k].end - result.servers[i].tasks[k].start])

RealizedTotal ==
    SumSeq([i \in 1..Len(result.servers) |-> RealizedBusyTime(i)])

UtilizationSum ==
    SumSeq([i \in 1..Len(result.servers) |-> result.servers[i].utilization])

\* C17: in the result every server's busyTime is its realized busy time and
\* its utilization is that time as a percentage of the realized busy time of
\* all servers, to the nearest hundredth; when at least one customer completed
\* the total is positive and the utilizations sum to 100% within half a
\* hundredth per server.
C17_UtilizationIsShareOfWork ==
    pc = "done" =>
        /\ \A i \in 1..Len(result.servers) :
              LET u == result.servers[i].utilization
                  d == 2 * RealizedTotal * u - 20000 * RealizedBusyTime(i)
              IN  /\ result.servers[i].busyTime = RealizedBusyTime(i)
                  /\ RealizedTotal > 0 => (-RealizedTotal <= d /\ d <= RealizedTotal)
        /\ result.totalServed >= 1 =>
              /\ RealizedTotal > 0
              /\ 2 * (UtilizationSum - 10000) <= numServers
              /\ 2 * (10000 - UtilizationSum) <= numServers

\* A finished two-server run in which a preemption cut an interval short, so
\* the busy time accumulated at dispatch exceeds the realized one, and the two
\* servers did unequal shares of the work.
C17_Witness ==
    /\ pc = "done" /\ numServers = 2 /\ result.totalServed >= 1
    /\ \E i \in ServerIds : servers[i].totalBusyTime > RealizedBusyTime(i)
    /\ result.servers[1].utilization > result.servers[2].utilization
    /\ result.servers[2].utilization > 0

\* ------------------------------------------------------------------ C18
\* The percentage of busy servers, rounded to the nearest integer.
PercentBusy ==
    (200 * Cardinality({s \in ServerIds : servers[s].busy}) + numServers)
        \div (2 * numServers)

NonDecreasingTimes(series) ==
    \A k \in 1..(Len(series) - 1) : series[k].time <= series[k + 1].time

C21_CountIsRoundedMean ==
    (arrivalParams.type = "normal" /\ arrivalParams.mean > 0 /\ pc # "gen") =>
        Len(allCustomers) = (arrivalParams.mean + 5) \div 10

\* C21 amended: for Normal arrivals with a positive mean the number of
\* generated customers is the mean rounded up to the next integer (the least
\* integer N with mean <= N), and that number is returned as totalArrivals.
C21_CountIsMeanRoundedUp ==
    (arrivalParams.type = "normal" /\ arrivalParams.mean > 0 /\ pc # "gen") =>
        /\ 10 * (Len(allCustomers) - 1) < arrivalParams.mean
        /\ arrivalParams.mean <= 10 * Len(allCustomers)
        /\ pc = "done" => result.totalArrivals = Len(allCustomers)

\* A finished run with Normal arrivals of mean 1.3: two customers.
C21_Witness ==
    /\ pc = "done" /\ arrivalParams.type = "normal" /\ arrivalParams.mean = 13
    /\ Len(allCustomers) = 2 /\ result.totalArrivals = 2

\* ------------------------------------------------------------------ C22
\* C22: for Uniform arrivals with a < b (a = 0 included) the number of
\* generated customers is (b - a) + 1 of the caller's a and b, rounded up.
C22_CountIsOwnSpan ==
    (/\ arrivalParams.type = "uniform"
     /\ 0 <= arrivalParams.a /\ arrivalParams.a < arrivalParams.b
     /\ pc # "gen") =>
        Len(allCustomers) = -((-((arrivalParams.b - arrivalParams.a) + 10)) \div 10)

C25_PriorityInRange ==
    /\ \A id \in Ids :
          IF enablePriority
          THEN allCustomers[id].priority \in 1..priorityLevels
          ELSE allCustomers[id].priority = 1
    /\ pc = "done" =>
          \A k \in 1..Len(result.priorityStats) :
              result.priorityStats[k].priority \in
                  1..(IF enablePriority THEN priorityLevels ELSE 1)

\* A finished run with priority disabled and priorityLevels > 1: several
\* customers, one priorityStats entry.
C25_Witness ==
    /\ pc = "done" /\ ~enablePriority /\ priorityLevels > 1
    /\ Len(result.customers) >= 2
    /\ Len(result.priorityStats) = 1

\* ------------------------------------------------------------------ C24
\* C24: every generated customer has an inter-arrival time >= 0 and arrives no
\* earlier than its predecessor, for every arrival distribution and every
\* parameter set the engine accepts.
C24_ArrivalsNonDecreasing ==
    \A i \in Ids :
        /\ allCustomers[i].interArrival >= 0
        /\ i > 1 => allCustomers[i - 1].arrivalTime <= allCustomers[i].arrivalTime

\* ------------------------------------------------------------------ C27
\* C27: for a non-empty CP table with non-decreasing cp and a draw R,
\* lookupFromCPTable returns the smallest x whose cp >= R, with that row's cp;
\* when R exceeds the last row's cp it returns the last x with cp = 1.
C27_LookupSmallestAdmitting ==
    call.fn = "lookupFromCPTable" =>
        LET table == call.args.table
            R == call.args.randomNum
            admitting == {k \in 1..Len(table) : table[k].cp >= R}
        IN  IF admitting # {}
            THEN \E k \in admitting :
                    /\ \A j \in admitting : table[k].x <= table[j].x
                    /\ call.out = [value |-> table[k].x, cp |-> table[k].cp]
            ELSE call.out = [value |-> table[Len(table)].x, cp |-> 10000]

\* A draw equal to the cp of the second row, above the cp of the first: the
\* second row's x is returned.
C27_Witness ==
    /\ call.fn = "lookupFromCPTable"
    /\ Len(call.args.table) >= 3
    /\ call.args.table[1].cp < call.args.randomNum
    /\ call.args.table[2].cp = call.args.randomNum
    /\ call.args.table[3].cp > call.args.randomNum
    /\ call.out.value = 1

\* ------------------------------------------------------------------ C26
\* C26: for every service distribution and every draw R in [0, 1), the time
\* getServiceTime returns is a finite integer >= 1.
C26_ServiceTimeFiniteAtLeastOne ==
    call.fn = "getServiceTime" =>
        /\ call.out.time \in Int
        /\ call.out.time >= 1
        /\ call.out.time < Infinity

\* ------------------------------------------------------------------ C28
\* C28: for a rate lambda > 0 the table generatePoissonCPTable returns has
\* rows x = 0, 1, 2, ... in order, cp non-decreasing and at most 1, and a
\* final cp within 0.01 of 1.
C28_TableReachesOne ==
    (call.fn = "generatePoissonCPTable" /\ call.args.lambda[1] > 0) =>
        LET table == call.out
        IN  /\ Len(table) >= 1
            /\ \A k \in 1..Len(table) :
                  /\ table[k].x = k - 1
                  /\ table[k].cp <= 10000
                  /\ k > 1 => table[k - 1].cp <= table[k].cp
            /\ table[Len(table)].cp >= 9900

\* ------------------------------------------------------------------ C29
\* C29 (as stated): calculateMMcMetrics reports stable = false exactly when
\* lambda / (c * mu) >= 1, and then every derived metric, Lq, L, Wq, W and
\* P0, is unbounded or undefined.
C29_UnstableAllUnbounded ==
    call.fn = "calculateMMcMetrics" =>
        LET in == call.args
            out == call.out
        IN  /\ (out.stable = FALSE) <=> (in.lambda >= in.c * in.mu)
            /\ out.stable = FALSE =>
                  \A m \in {out.Lq, out.L, out.Wq, out.W, out.P0} :
                      m \in {Infinity, NaN, Undefined}

\* C29 (amended): calculateMMcMetrics reports stable = false exactly when
\* lambda / (c * mu) >= 1, and then Lq, L, Wq and W are Infinity, P0 is 0 and
\* rho is the unrounded quotient; (10, 2, 1) gives rho = 5, unstable.
C29_UnstableInfiniteAndP0Zero ==
    call.fn = "calculateMMcMetrics" =>
        LET in == call.args
            out == call.out
        IN  /\ (out.stable = FALSE) <=> (in.lambda >= in.c * in.mu)
            /\ out.stable = FALSE =>
                  /\ out.Lq = Infinity /\ out.L = Infinity
                  /\ out.Wq = Infinity /\ out.W = Infinity
                  /\ out.P0 = 0
                  /\ out.rho[1] * in.c * in.mu = out.rho[2] * in.lambda
            /\ in = [lambda |-> 10, mu |-> 2, c |-> 1] =>
                  out.rho = <<5, 1>> /\ out.stable = FALSE

C29_Witness ==
    /\ call.fn = "calculateMMcMetrics"
    /\ call.args = [lambda |-> 10, mu |-> 2, c |-> 1]
    /\ call.out.stable = FALSE
    /\ call.out.Lq = Infinity

\* ------------------------------------------------------------------ C30
Within(x, y, tolerance) == x - y <= tolerance /\ y - x <= tolerance

\* C30: for a stable result the reported metrics satisfy L = Lq + lambda/mu,
\* W = L / lambda and Wq = Lq / lambda to within 0.0001, and (4, 5, 1) gives
\* rho 0.8, P0 0.2, Lq 3.2, L 4, Wq 0.8 and W 1.
C30_StableMetricsRelated ==
    (call.fn = "calculateMMcMetrics" /\ call.out.stable) =>
        LET in == call.args
            out == call.out
        IN  /\ Within(in.mu * out.L, in.mu * out.Lq + 10000 * in.lambda, in.mu)
            /\ Within(in.lambda * out.W, out.L, in.lambda)
            /\ Within(in.lambda * out.Wq, out.Lq, in.lambda)
            /\ in = [lambda |-> 4, mu |-> 5, c |-> 1] =>
                  /\ out.rho = <<4, 5>> /\ out.P0 = 2000
                  /\ out.Lq = 32000 /\ out.L = 40000
                  /\ out.Wq = 8000 /\ out.W = 10000

C30_Witness ==
    /\ call.fn = "calculateMMcMetrics"
    /\ call.args = [lambda |-> 4, mu |-> 5, c |-> 1]
    /\ call.out.stable
    /\ call.out.L = 40000

\* ------------------------------------------------------------------ C31
\* The customers in service.
Occupants == {servers[s].customer : s \in {t \in ServerIds : servers[t].busy}}

\* C31: with priority enabled, after every event no waiting customer outranks
\* a customer in service: the priority number of every occupant is at most
\* that of every queued customer.
C31_NoWaiterOutranksOccupant ==
    enablePriority =>
        \A k \in 1..Len(queue) : \A o \in Occupants : Prio(o) <= Prio(queue[k])

\* A preemption has put a customer of a lower priority on the wait queue
\* behind an occupant of a higher one.
C31_Witness ==
    /\ enablePriority
    /\ branch = "preempt"
    /\ \E k \in 1..Len(queue) : \E o \in Occupants : Prio(o) < Prio(queue[k])

\* ------------------------------------------------------------------ C32
\* The total length of the service intervals recorded for customer id.
ServedTime(id) ==
    LET refs == TasksOf(id)
        RECURSIVE Total(_)
        Total(S) == IF S = {} THEN 0
                    ELSE LET ref == CHOOSE r \in S : TRUE
                         IN  (TaskAt(ref).end - TaskAt(ref).start)
                             + Total(S \ {ref})
    IN  Total(refs)

\* C32: for every completed customer the service intervals recorded for it on
\* all servers add up to its sampled serviceTime: preemption neither loses nor
\* adds work.
C32_WorkPreserved ==
    pc = "done" =>
        \A k \in 1..Len(result.customers) :
            ServedTime(result.customers[k].id) = result.customers[k].serviceTime

\* ------------------------------------------------------------------ C33
\* The servers whose task list grows in this step.
DispatchingServers == {s \in ServerIds : Len(servers'[s].tasks) > Len(servers[s].tasks)}

\* C33: with at least one server the engine is work-conserving: whenever the
\* wait queue is non-empty every server is busy, and a departure that finds
\* the queue non-empty starts the queue head on the freed server at the
\* departure time.
C33_WorkConserving ==
    /\ [](numServers >= 1 /\ Len(queue) > 0 => \A s \in ServerIds : servers[s].busy)
    /\ [][(numServers >= 1 /\ EventStep /\ ~ArrivalStep /\ Len(queue) > 0) =>
             /\ queue' = Tail(queue)
             /\ \E s \in ServerIds :
                   /\ DispatchingServers = {s}
                   /\ servers[s].busy /\ servers[s].busyUntil = currentTime'
                   /\ servers'[s].busy /\ servers'[s].customer = Head(queue)
                   /\ servers'[s].tasks[Len(servers'[s].tasks)].customerId = Head(queue)
                   /\ servers'[s].tasks[Len(servers'[s].tasks)].start = currentTime'
          ]_vars

\* A departure has started the head of a queue of two on the freed server and
\* left the other customer waiting.
C33_Witness ==
    /\ numServers >= 1
    /\ branch = "departure"
    /\ Len(queue) >= 1
    /\ \E s \in ServerIds :
          /\ servers[s].busy
          /\ Len(servers[s].tasks) >= 2
          /\ servers[s].tasks[Len(servers[s].tasks)].start = currentTime

\* ------------------------------------------------------------------ C34
\* The busy servers whose occupant has the largest priority number in service.
LargestPriorityServers ==
    {s \in ServerIds : /\ servers[s].busy
                       /\ \A t \in ServerIds : servers[t].busy =>
                             Prio(servers[t].customer) <= Prio(servers[s].customer)}

\* The busy servers with the earliest busyUntil.
EarliestServers ==
    {s \in ServerIds : /\ servers[s].busy
                       /\ \A t \in ServerIds : servers[t].busy =>
                             servers[s].busyUntil <= servers[t].busyUntil}

\* The servers whose occupant leaves in this step.
VacatedServers ==
    {s \in ServerIds : servers[s].busy /\ servers'[s].customer # servers[s].customer}

\* C34: of several occupants equally eligible for preemption the one on the
\* server with the lowest id is preempted, and of several servers sharing the
\* earliest busyUntil the one with the lowest id departs first.
C34_LowestServerIdFirst ==
    [][/\ (EventStep /\ ArrivalStep /\ branch' = "preempt") =>
             \E s \in LargestPriorityServers :
                /\ VacatedServers = {s}
                /\ \A t \in LargestPriorityServers : servers[s].id <= servers[t].id
       /\ (EventStep /\ ~ArrivalStep) =>
             \E s \in EarliestServers :
                /\ VacatedServers = {s}
                /\ \A t \in EarliestServers : servers[s].id <= servers[t].id
      ]_vars

\* Server 1 has been preempted while server 2 holds an occupant of the same
\* priority as the preempted customer.
C34_Witness ==
    /\ branch = "preempt"
    /\ Len(servers) >= 2
    /\ servers[2].busy
    /\ Len(queue) >= 1
    /\ Prio(servers[2].customer) = Prio(queue[Len(queue)])
    /\ Len(servers[1].tasks) = 2
    /\ servers[1].tasks[1].customerId \in {queue[k] : k \in 1..Len(queue)}
    /\ Prio(servers[1].tasks[1].customerId) = Prio(servers[2].customer)
    /\ servers[1].tasks[2].start = currentTime

\* ------------------------------------------------------------------ C35
\* The fields of a customer object, or of a customer record, that are set at
\* generation.
Generated(c) ==
    <<c.id, c.randomNum, c.cp, c.interArrival, c.arrivalTime, c.priority,
      c.serviceTime, c.serviceRandomNum>>

\* C35: the event loop leaves the generated fields of every customer as they
\* were, each completed record carries the generated fields of its customer,
\* and the output customers are in ascending order of id, no id repeated.
C35_GeneratedFieldsKept ==
    /\ [][pc = "loop" =>
             /\ Len(allCustomers') = Len(allCustomers)
             /\ \A id \in Ids : Generated(allCustomers'[id]) = Generated(allCustomers[id])
         ]_vars
    /\ [](pc # "gen" => \A id \in Ids : allCustomers[id].id = id)
    /\ [](pc = "done" =>
             \A k \in 1..Len(result.customers) :
                /\ result.customers[k].id \in Ids
                /\ Generated(result.customers[k])
                       = Generated(allCustomers[result.customers[k].id])
                /\ k > 1 => result.customers[k - 1].id < result.customers[k].id)

\* A finished run in which a customer left before one with a smaller id, and
\* a completed customer's remaining service time was reduced by a preemption.
C35_Witness ==
    /\ pc = "done"
    /\ Len(result.customers) >= 2
    /\ \E j, k \in 1..Len(completedCustomers) :
          j < k /\ completedCustomers[j].id > completedCustomers[k].id
    /\ \E k \in 1..Len(result.customers) :
          allCustomers[result.customers[k].id].remainingServiceTime
              # result.customers[k].serviceTime

\* ------------------------------------------------------------------ C36
\* C36: with priority disabled, of two customers that have entered service the
\* one with the smaller id started no later, and the customers leave the wait
\* queue in the order they entered it (those still waiting are the last ones
\* that entered, in their order of entry).
C36_ServiceInArrivalOrder ==
    ~enablePriority =>
        /\ \A i, j \in Ids :
              (i < j /\ Started(i) /\ Started(j)) =>
                  FirstServiceStart(i) <= FirstServiceStart(j)
        /\ Len(queue) <= Len(enqueued)
        /\ queue = SubSeq(enqueued, Len(enqueued) - Len(queue) + 1, Len(enqueued))

\* ------------------------------------------------------------------ C37
\* C37: the simulated clock never moves backwards: the event times sampled so
\* far are non-decreasing and end at currentTime, every busy server's
\* busyUntil is at least currentTime, and so is the arrivalTime of every
\* customer that has not arrived yet.
C37_ClockNeverBackwards ==
    pc # "gen" =>
        /\ NonDecreasingTimes(queueLengthOverTime)
        /\ Len(queueLengthOverTime) > 0 =>
              queueLengthOverTime[Len(queueLengthOverTime)].time = currentTime
        /\ \A s \in ServerIds : servers[s].busy => servers[s].busyUntil >= currentTime
        /\ \A id \in Ids : id > customerIndex => allCustomers[id].arrivalTime >= currentTime

\* ------------------------------------------------------------------ C38
\* The positions in the output customers of the customers of level p.
RecordsOfLevel(p) ==
    {k \in 1..Len(result.customers) : result.customers[k].priority = p}

\* The levels the statistics range over that have a completed customer.
ServedLevels ==
    {p \in 1..(IF enablePriority THEN priorityLevels ELSE 1) : RecordsOfLevel(p) # {}}

RECURSIVE TotalOver(_, _)
TotalOver(S, field) ==
    IF S = {} THEN 0
    ELSE LET k == CHOOSE j \in S : TRUE
         IN  result.customers[k][field] + TotalOver(S \ {k}, field)

\* avg (in hundredths) is the mean of the field over the records S, rounded to
\* two decimals.
IsAverage(avg, S, field) ==
    /\ 2 * (Cardinality(S) * avg - 100 * TotalOver(S, field)) <= Cardinality(S)
    /\ 2 * (100 * TotalOver(S, field) - Cardinality(S) * avg) < Cardinality(S)

\* C38: priorityStats has exactly one entry for each level in 1..priorityLevels
\* (level 1 alone with priority disabled) that has a completed customer, in
\* ascending order of priority, and each entry averages waitTime,
\* responseTime, interArrival and turnAround over the completed customers of
\* its level; a level without a customer has no entry.
C38_PriorityStatsPerServedLevel ==
    pc = "done" =>
        LET stats == result.priorityStats
        IN  /\ {stats[k].priority : k \in 1..Len(stats)} = ServedLevels
            /\ \A k \in 2..Len(stats) : stats[k - 1].priority < stats[k].priority
            /\ \A k \in 1..Len(stats) :
                  LET S == RecordsOfLevel(stats[k].priority)
                  IN  /\ IsAverage(stats[k].avgWait, S, "waitTime")
                      /\ IsAverage(stats[k].avgResponse, S, "responseTime")
                      /\ IsAverage(stats[k].avgInterArrival, S, "interArrival")
                      /\ IsAverage(stats[k].avgTurnAround, S, "turnAround")

\* A finished run with two priority levels in which only level 2 was drawn,
\* by three customers whose waits do not average to a whole number.
C38_Witness ==
    /\ pc = "done"
    /\ enablePriority /\ priorityLevels = 2
    /\ Len(result.priorityStats) = 1
    /\ result.priorityStats[1].priority = 2
    /\ Cardinality(RecordsOfLevel(2)) = 3
    /\ result.priorityStats[1].avgWait % 100 # 0
====
